---------------------------- MODULE Spec2Model ----------------------------
(***************************************************************************)
(* Model of src/app.py: the amount-in-words converter (number_to_words),   *)
(* the order fetch and amount derivation (fetch_order_data_from_api), the  *)
(* PDF generation (generate_invoice_pdf) and the Flask route               *)
(* (invoice_route).                                                        *)
(*                                                                         *)
(* Representation of Python values                                         *)
(*   - a str is the sequence of its pieces between single spaces, i.e.     *)
(*     s.split(' '): "one lakh" is <<"one","lakh">>, '' is <<"">> and      *)
(*     ' lakh' is <<"", "lakh">>.  a + ' ' + b is the concatenation a \o b.*)
(*   - a finite float is [cls |-> "finite", r, f]: r = math.floor(x) and   *)
(*     f = x - r counted in units of 1/Unit rupee (0 <= f < Unit).         *)
(*     Arithmetic on these is exact; round() is round-half-to-even, as     *)
(*     Python's round is on a float that is an exact tie.                  *)
(*   - a monetary amount inside the derivation is one integer in units of  *)
(*     1/Unit rupee.                                                       *)
(***************************************************************************)
EXTENDS Integers, Sequences, FiniteSets, TLC

VARIABLES
    number,        \* argument of the number_to_words call under way
    words,         \* its outcome: returned str or raised exception
    wpc,           \* position of the converter call: "idle", "called", "done"
    pc,            \* position of invoice_route
    upstream,      \* what the provider did for this request
    order_id,      \* route parameter
    invoice_data,  \* outcome of fetch_order_data_from_api
    render_env,    \* what the template engine / PDF writer did
    pdf_bytes,     \* outcome of generate_invoice_pdf
    renderer_calls,\* number of calls of generate_invoice_pdf in this request
    outcome        \* how invoice_route ended

vars == <<number, words, wpc, pc, upstream, order_id, invoice_data,
          render_env, pdf_bytes, renderer_calls, outcome>>

\* resolution of amounts: 100 paise per rupee, 1000 steps per paise
Unit == 100 * 1000

-----------------------------------------------------------------------------
(* number_to_words, src/app.py:26-81 *)

units == <<"", "one", "two", "three", "four", "five", "six", "seven", "eight", "nine">>

teens == <<"ten", "eleven", "twelve", "thirteen", "fourteen", "fifteen",
           "sixteen", "seventeen", "eighteen", "nineteen">>

tens == <<"", "", "twenty", "thirty", "forty", "fifty",
          "sixty", "seventy", "eighty", "ninety">>

get_unit_word(n) ==
    IF 0 <= n /\ n < 10 THEN <<units[n + 1]>>
    ELSE IF 10 <= n /\ n < 20 THEN <<teens[n - 10 + 1]>>
    ELSE IF 20 <= n /\ n < 100
         THEN IF n % 10 # 0 THEN <<tens[(n \div 10) + 1], units[(n % 10) + 1]>>
                            ELSE <<tens[(n \div 10) + 1]>>
    ELSE <<"">>

\* filter(None, in_words): drops the empty strings of a list of strings
RECURSIVE FilterNone(_)
FilterNone(list) ==
    IF list = <<>> THEN <<>>
    ELSE IF Head(list) = <<"">> THEN FilterNone(Tail(list))
    ELSE <<Head(list)>> \o FilterNone(Tail(list))

\* ' '.join(list)
RECURSIVE JoinSpace(_)
JoinSpace(list) ==
    IF list = <<>> THEN <<"">>
    ELSE IF Len(list) = 1 THEN Head(list)
    ELSE Head(list) \o JoinSpace(Tail(list))

get_full_word_and_always(num) ==
    IF num = 0 THEN <<"zero">>
    ELSE LET lakh      == num \div 100000
             num1      == num % 100000
             thousand  == num1 \div 1000
             num2      == num1 % 1000
             hundred   == num2 \div 100
             remainder == num2 % 100
             w1 == IF lakh > 0 THEN << get_unit_word(lakh) \o <<"lakh">> >> ELSE <<>>
             w2 == IF thousand > 0 THEN << get_unit_word(thousand) \o <<"thousand">> >> ELSE <<>>
             w3 == IF hundred > 0 THEN << get_unit_word(hundred) \o <<"hundred">> >> ELSE <<>>
             w4 == IF remainder > 0
                   THEN << <<"and">> >> \o << get_unit_word(remainder) >>
                   ELSE <<>>
         IN  JoinSpace(FilterNone(w1 \o w2 \o w3 \o w4))

get_full_word(num) ==
    IF num = 0 THEN <<"zero">>
    ELSE LET lakh      == num \div 100000
             num1      == num % 100000
             thousand  == num1 \div 1000
             num2      == num1 % 1000
             hundred   == num2 \div 100
             remainder == num2 % 100
             w1 == IF lakh > 0 THEN << get_unit_word(lakh) \o <<"lakh">> >> ELSE <<>>
             w2 == IF thousand > 0 THEN << get_unit_word(thousand) \o <<"thousand">> >> ELSE <<>>
             w3 == IF hundred > 0 THEN << get_unit_word(hundred) \o <<"hundred">> >> ELSE <<>>
             in3 == w1 \o w2 \o w3
             w4 == IF remainder > 0
                   THEN (IF Len(in3) > 0 /\ (lakh > 0 \/ thousand > 0 \/ hundred > 0)
                         THEN << <<"and">> >> ELSE <<>>)
                        \o << get_unit_word(remainder) >>
                   ELSE <<>>
         IN  JoinSpace(FilterNone(in3 \o w4))

\* str.strip(): the leading and trailing empty pieces go
RECURSIVE LStrip(_)
LStrip(s) ==
    IF Len(s) > 1 /\ Head(s) = "" THEN LStrip(Tail(s)) ELSE s

RECURSIVE RStrip(_)
RStrip(s) ==
    IF Len(s) > 1 /\ s[Len(s)] = "" THEN RStrip(SubSeq(s, 1, Len(s) - 1)) ELSE s

strip(s) == RStrip(LStrip(s))

\* first letter of a word in upper case
Upper(w) ==
    CASE w = "zero" -> "Zero" [] w = "one" -> "One" [] w = "two" -> "Two"
      [] w = "three" -> "Three" [] w = "four" -> "Four" [] w = "five" -> "Five"
      [] w = "six" -> "Six" [] w = "seven" -> "Seven" [] w = "eight" -> "Eight"
      [] w = "nine" -> "Nine" [] w = "ten" -> "Ten" [] w = "eleven" -> "Eleven"
      [] w = "twelve" -> "Twelve" [] w = "thirteen" -> "Thirteen"
      [] w = "fourteen" -> "Fourteen" [] w = "fifteen" -> "Fifteen"
      [] w = "sixteen" -> "Sixteen" [] w = "seventeen" -> "Seventeen"
      [] w = "eighteen" -> "Eighteen" [] w = "nineteen" -> "Nineteen"
      [] w = "twenty" -> "Twenty" [] w = "thirty" -> "Thirty" [] w = "forty" -> "Forty"
      [] w = "fifty" -> "Fifty" [] w = "sixty" -> "Sixty" [] w = "seventy" -> "Seventy"
      [] w = "eighty" -> "Eighty" [] w = "ninety" -> "Ninety"
      [] w = "lakh" -> "Lakh" [] w = "thousand" -> "Thousand"
      [] w = "hundred" -> "Hundred" [] w = "and" -> "And" [] w = "only" -> "Only"
      [] w = "paise" -> "Paise"
      [] OTHER -> w

\* str.capitalize(): first character upper case, the rest lower case
capitalize(s) == <<Upper(Head(s))>> \o Tail(s)

\* round(x / q) for q > 0, ties to the even integer (Python 3 round)
RoundDiv(x, q) ==
    LET fl  == x \div q
        rem == x % q
    IN  IF 2 * rem < q THEN fl
        ELSE IF 2 * rem > q THEN fl + 1
        ELSE IF fl % 2 = 0 THEN fl ELSE fl + 1

\* float(number), line 71: the value, or the exception float() raises
float_of(v) ==
    CASE v.kind = "float"   -> [exc |-> "none", cls |-> "finite", r |-> v.r, f |-> v.f]
      [] v.kind = "numstr"  -> [exc |-> "none", cls |-> "finite", r |-> v.r, f |-> v.f]
      [] v.kind = "nanstr"  -> [exc |-> "none", cls |-> "nan", r |-> 0, f |-> 0]
      [] v.kind = "infstr"  -> [exc |-> "none", cls |-> "inf", r |-> 0, f |-> 0]
      [] v.kind = "badstr"  -> [exc |-> "ValueError", cls |-> "none", r |-> 0, f |-> 0]
      [] v.kind = "emptystr" -> [exc |-> "ValueError", cls |-> "none", r |-> 0, f |-> 0]
      [] v.kind = "none"    -> [exc |-> "TypeError", cls |-> "none", r |-> 0, f |-> 0]
      [] v.kind = "object"  -> [exc |-> "TypeError", cls |-> "none", r |-> 0, f |-> 0]

\* math.floor(number), line 74
amount_in_rupees_rounded(x) == IF 2 * x.f >= Unit THEN x.r + 1 ELSE x.r

amount_in_rupees(x) == x.r

\* round((number - amount_in_rupees) * 100), line 75
amount_in_paise(x, rupees) == RoundDiv(((x.r - rupees) * Unit + x.f) * 100, Unit)

\* lines 77-80
with_suffix_no_only(w, paise) ==
    IF paise > 0
    THEN w \o <<"and">> \o get_full_word(paise) \o <<"paise">>
    ELSE w \o <<"only">>

with_suffix(w, paise) ==
    IF paise > 0
    THEN w \o <<"and">> \o get_full_word(paise) \o <<"paise", "only">>
    ELSE w \o <<"only">>

Returned(s) == [exc |-> "none", value |-> s]
Raised(e)   == [exc |-> e, value |-> <<"">>]

number_to_words(v) ==
    LET x == float_of(v)
    IN  IF x.exc = "ValueError" THEN Returned(<<"Invalid", "amount">>)
        ELSE IF x.exc # "none" THEN Raised(x.exc)
        ELSE IF x.cls = "nan" THEN Raised("ValueError")
        ELSE IF x.cls = "inf" THEN Raised("OverflowError")
        ELSE LET rupees == amount_in_rupees(x)
                 paise  == amount_in_paise(x, rupees)
             IN  Returned(capitalize(strip(with_suffix(get_full_word(rupees), paise))))

-----------------------------------------------------------------------------
(* fetch_order_data_from_api, src/app.py:83-177 *)

cgst_rate_permille == 25
sgst_rate_permille == 25

\* amount * rate for a rate given per thousand (exact on the amounts used,
\* which are multiples of 40 units)
TimesRate(amount, permille) ==
    (amount \div 1000) * permille + ((amount % 1000) * permille) \div 1000

\* round(x, 2): to the nearest paise
round2(x) == RoundDiv(x, 1000) * 1000

\* the float a monetary amount in units denotes
AsFloat(a) == [kind |-> "float", r |-> a \div Unit, f |-> a % Unit]

\* int(item['quantity']), float(item['price']), float(order['total']) ...:
\* the exception the subscript or the conversion raises, if any
FieldExc(field) ==
    CASE field.tag = "missing" -> "KeyError"
      [] field.tag = "bad"     -> "ValueError"
      [] OTHER                 -> "none"

\* one pass of the loop body, lines 106-135, on the accumulator acc
line_item_step(acc, item) ==
    IF acc.exc # "none" THEN acc
    ELSE IF FieldExc(item.quantity) # "none" THEN [acc EXCEPT !.exc = FieldExc(item.quantity)]
    ELSE IF FieldExc(item.price) # "none" THEN [acc EXCEPT !.exc = FieldExc(item.price)]
    ELSE IF FieldExc(item.subtotal) # "none" THEN [acc EXCEPT !.exc = FieldExc(item.subtotal)]
    ELSE IF item.name = "missing" THEN [acc EXCEPT !.exc = "KeyError"]
    ELSE LET quantity    == item.quantity.v
             rate        == item.price.v
             amount      == item.subtotal.v
             cgst_amount == TimesRate(amount, cgst_rate_permille)
             sgst_amount == TimesRate(amount, sgst_rate_permille)
             total_item_amount == amount + cgst_amount + sgst_amount
         IN  [exc        |-> "none",
              items      |-> Append(acc.items,
                                [description |-> item.name,
                                 hsn_sac     |-> "N/A",
                                 quantity    |-> quantity,
                                 rate        |-> round2(rate),
                                 amount      |-> round2(amount),
                                 cgst_amount |-> round2(cgst_amount),
                                 sgst_amount |-> round2(sgst_amount),
                                 total       |-> round2(total_item_amount)]),
              subtotal   |-> acc.subtotal + amount,
              total_cgst |-> acc.total_cgst + cgst_amount,
              total_sgst |-> acc.total_sgst + sgst_amount]

\* the for loop of lines 95-135
RECURSIVE line_items_loop(_, _)
line_items_loop(acc, line_items) ==
    IF line_items = <<>> THEN acc
    ELSE line_items_loop(line_item_step(acc, Head(line_items)), Tail(line_items))

\* line 140
rounding_without_tax(total_amount, subtotal, total_tax) == total_amount - subtotal

rounding_of(total_amount, subtotal, total_tax) == total_amount - (subtotal + total_tax)

\* float(order['total']), lines 137 and 166: the grand total of the view and
\* the argument of number_to_words; acc holds the loop's running sums
total_amount_summed(order, acc) == acc.subtotal + acc.total_cgst + acc.total_sgst

total_amount_of(order, acc) == order.total.v

\* strptime(...).strftime('%d/%m/%Y'), lines 143-144
format_date(date) == <<date.d, date.m, date.y>>

NoView == [invoice_number |-> [type |-> "none", text |-> <<>>],
           invoice_date |-> <<>>, due_date |-> <<>>, items |-> <<>>,
           subtotal |-> 0, total_cgst |-> 0, total_sgst |-> 0,
           total_amount |-> 0, rounding |-> 0, total_in_words |-> <<"">>]

\* lines 88-169: the body of the try block.  exc is the exception it raises
\* ("none": it returns view); response_bound tells whether line 89 had
\* assigned response when it was raised.
try_body(oid, up) ==
    LET Fail(e, bound) == [exc |-> e, response_bound |-> bound, view |-> NoView]
    IN
    IF up.get = "raise_ConnectionError" THEN Fail("ConnectionError", FALSE)
    ELSE IF up.get = "raise_HTTPError" THEN Fail("HTTPError", FALSE)
    ELSE IF up.status >= 400 /\ up.status < 600 THEN Fail("HTTPError", TRUE)
    ELSE IF up.json = "malformed" THEN Fail("JSONDecodeError", TRUE)
    ELSE IF up.json = "nondict" THEN Fail("AttributeError", TRUE)
    ELSE
    LET order == up.order
        acc0  == [exc |-> "none", items |-> <<>>, subtotal |-> 0,
                  total_cgst |-> 0, total_sgst |-> 0]
        acc   == line_items_loop(acc0, IF order.has_line_items THEN order.line_items ELSE <<>>)
    IN
    IF acc.exc # "none" THEN Fail(acc.exc, TRUE)
    ELSE IF FieldExc(order.total) # "none" THEN Fail(FieldExc(order.total), TRUE)
    ELSE IF FieldExc(order.total_tax) # "none" THEN Fail(FieldExc(order.total_tax), TRUE)
    ELSE IF order.date_created.tag = "missing" THEN Fail("KeyError", TRUE)
    ELSE IF order.date_created.tag = "bad" THEN Fail("ValueError", TRUE)
    ELSE
    LET total_nan   == order.total.tag = "nan"
        total_amount == total_amount_of(order, acc)
        total_tax   == order.total_tax.v
        rounding    == rounding_of(total_amount, acc.subtotal, total_tax)
        in_words    == number_to_words(IF total_nan
                                       THEN [kind |-> "nanstr", r |-> 0, f |-> 0]
                                       ELSE AsFloat(total_amount))
        date        == format_date(order.date_created)
    IN
    IF in_words.exc # "none" THEN Fail(in_words.exc, TRUE)
    ELSE [exc |-> "none", response_bound |-> TRUE,
          view |-> [invoice_number |-> IF order.number.type = "missing"
                                       THEN [type |-> "str", text |-> oid]
                                       ELSE order.number,
                    invoice_date   |-> date,
                    due_date       |-> date,
                    items          |-> acc.items,
                    subtotal       |-> round2(acc.subtotal),
                    total_cgst     |-> round2(acc.total_cgst),
                    total_sgst     |-> round2(acc.total_sgst),
                    total_amount   |-> total_amount,
                    rounding       |-> round2(rounding),
                    total_in_words |-> in_words.value]]

ResultView(v)  == [exc |-> "none", kind |-> "view", view |-> v]
ResultNotFound == [exc |-> "none", kind |-> "Order Not Found", view |-> NoView]
ResultNone     == [exc |-> "none", kind |-> "None", view |-> NoView]
ResultRaised(e) == [exc |-> e, kind |-> "raised", view |-> NoView]

fetch_order_data_from_api(oid, up) ==
    LET t == try_body(oid, up)
    IN  IF t.exc = "none" THEN ResultView(t.view)
        ELSE IF t.exc = "HTTPError"
             THEN \* line 172 reads the local variable response
                  IF ~t.response_bound THEN ResultRaised("UnboundLocalError")
                  ELSE IF up.status = 404 THEN ResultNotFound
                  ELSE ResultNone
        ELSE ResultNone

-----------------------------------------------------------------------------
(* generate_invoice_pdf, src/app.py:179-205 *)

PdfBytes       == [exc |-> "none", kind |-> "bytes"]
PdfNone        == [exc |-> "none", kind |-> "None"]
PdfRaised(e)   == [exc |-> e, kind |-> "raised"]
PdfPending     == [exc |-> "none", kind |-> "pending"]

\* env tells which stage fails: "load" (get_template, inside the first try),
\* "render" (template.render, line 199, inside no try), "write" (write_pdf,
\* inside the second try) or "ok"
generate_invoice_pdf(view, env) ==
    IF env = "load" THEN PdfNone
    ELSE IF env = "render" THEN PdfRaised("TemplateError")
    ELSE IF env = "write" THEN PdfNone
    ELSE PdfBytes

-----------------------------------------------------------------------------
(* inputs *)

MaxLines == 2      \* line items per order
MaxSmall == 1200   \* every whole amount 0..MaxSmall is converted

Ok(v)        == [tag |-> "ok", v |-> v]
MissingField == [tag |-> "missing", v |-> 0]
BadField     == [tag |-> "bad", v |-> 0]
NanField     == [tag |-> "nan", v |-> 0]

\* net line amounts: 0.00, 0.004, 10.00, 1000.00
NetVals   == {0, 400, 10 * Unit, 1000 * Unit}
\* reported totals: 0.00, 1050.00, 1050.004, 2050.00, 2100.00
TotalVals == {0, 1050 * Unit, 1050 * Unit + 400, 2050 * Unit, 2100 * Unit}
\* reported total_tax: 0.00, 50.00, 50.006
TaxVals   == {0, 50 * Unit, 50 * Unit + 600}

GoodItem(net) == [quantity |-> Ok(2), price |-> Ok(500 * Unit),
                  subtotal |-> Ok(net), name |-> "Widget"]

GoodItems == {GoodItem(net) : net \in NetVals}

BadItems ==
    { [GoodItem(1000 * Unit) EXCEPT !.quantity = MissingField],
      [GoodItem(1000 * Unit) EXCEPT !.quantity = BadField],
      [GoodItem(1000 * Unit) EXCEPT !.price = MissingField],
      [GoodItem(1000 * Unit) EXCEPT !.price = BadField],
      [GoodItem(1000 * Unit) EXCEPT !.subtotal = MissingField],
      [GoodItem(1000 * Unit) EXCEPT !.subtotal = BadField],
      [GoodItem(1000 * Unit) EXCEPT !.name = "missing"] }

SeqsUpTo(S, n) == UNION { [1..k -> S] : k \in 0..n }

GoodDate == [tag |-> "ok", y |-> 2024, m |-> 3, d |-> 7]

Numbers == { [type |-> "str", text |-> <<"1", "0", "7">>],
             [type |-> "str", text |-> <<"A", "/", "7">>] }

GoodOrders ==
    { [has_line_items |-> TRUE, line_items |-> ls, total |-> Ok(t),
       total_tax |-> Ok(x), date_created |-> GoodDate, number |-> n] :
      ls \in SeqsUpTo(GoodItems, MaxLines), t \in TotalVals, x \in TaxVals,
      n \in Numbers }

BaseOrder == [has_line_items |-> TRUE, line_items |-> <<GoodItem(1000 * Unit)>>,
              total |-> Ok(1050 * Unit), total_tax |-> Ok(50 * Unit),
              date_created |-> GoodDate,
              number |-> [type |-> "str", text |-> <<"1", "0", "7">>]]

DefectOrders ==
    { [BaseOrder EXCEPT !.line_items = <<b>>] : b \in BadItems }
    \cup { [BaseOrder EXCEPT !.line_items = <<GoodItem(10 * Unit), b>>] : b \in BadItems }
    \cup { [BaseOrder EXCEPT !.total = f] : f \in {MissingField, BadField, NanField} }
    \cup { [BaseOrder EXCEPT !.total_tax = f] : f \in {MissingField, BadField} }
    \cup { [BaseOrder EXCEPT !.date_created = [tag |-> g, y |-> 0, m |-> 0, d |-> 0]] :
           g \in {"missing", "bad"} }
    \cup { [BaseOrder EXCEPT !.number = [type |-> "missing", text |-> <<>>]],
           [BaseOrder EXCEPT !.number = [type |-> "int", text |-> <<"1", "0", "7">>]],
           [BaseOrder EXCEPT !.has_line_items = FALSE, !.line_items = <<>>] }

Response(status, json, order) ==
    [get |-> "response", status |-> status, json |-> json, order |-> order]

Upstreams ==
    { Response(200, "dict", o) : o \in GoodOrders \cup DefectOrders }
    \cup { Response(200, j, BaseOrder) : j \in {"malformed", "nondict"} }
    \cup { Response(st, "dict", BaseOrder) : st \in {404, 500} }
    \cup { [get |-> g, status |-> 0, json |-> "none", order |-> BaseOrder] :
           g \in {"raise_ConnectionError", "raise_HTTPError"} }

NoUpstream == [get |-> "none", status |-> 0, json |-> "none", order |-> BaseOrder]

OrderIds == { <<"4", "2">> }

RenderEnvs == {"load", "render", "write", "ok"}

-----------------------------------------------------------------------------
(* invoice_route, src/app.py:209-230 *)

\* str.replace('/', '-') on a string given as its characters, line 223
RECURSIVE replace_slash(_)
replace_slash(text) ==
    IF text = <<>> THEN <<>>
    ELSE <<IF Head(text) = "/" THEN "-" ELSE Head(text)>> \o replace_slash(Tail(text))

NoNumber   == [kind |-> "none", r |-> 0, f |-> 0]
NoWords    == [exc |-> "pending", value |-> <<"">>]
FetchPending == [exc |-> "none", kind |-> "pending", view |-> NoView]

WordsOff == number = NoNumber /\ words = NoWords /\ wpc = "off"

RouteStart(p) ==
    /\ pc = p
    /\ upstream = NoUpstream
    /\ order_id \in OrderIds
    /\ invoice_data = FetchPending
    /\ render_env = "none"
    /\ pdf_bytes = PdfPending
    /\ renderer_calls = 0
    /\ outcome = [kind |-> "pending", file_name |-> <<>>]

Init == WordsOff /\ RouteStart("start")

Finish(kind, name) ==
    /\ pc' = "done"
    /\ outcome' = [kind |-> kind, file_name |-> name]

\* line 214; an exception leaving fetch_order_data_from_api leaves the route
invoice_route_fetch ==
    /\ pc = "start"
    /\ \E up \in Upstreams :
        /\ upstream' = up
        /\ invoice_data' = fetch_order_data_from_api(order_id, up)
        /\ IF invoice_data'.exc # "none"
           THEN Finish("raised", <<>>)
           ELSE pc' = "fetched" /\ UNCHANGED outcome
    /\ UNCHANGED <<number, words, wpc, order_id, render_env, pdf_bytes, renderer_calls>>

\* lines 215-216
invoice_route_abort_fetch ==
    /\ pc = "fetched"
    /\ invoice_data.kind = "None"
    /\ Finish("abort500", <<>>)
    /\ UNCHANGED <<number, words, wpc, upstream, order_id, invoice_data,
                   render_env, pdf_bytes, renderer_calls>>

\* lines 217-218
invoice_route_abort_not_found ==
    /\ pc = "fetched"
    /\ invoice_data.kind # "None"
    /\ invoice_data.kind = "Order Not Found"
    /\ Finish("abort404", <<>>)
    /\ UNCHANGED <<number, words, wpc, upstream, order_id, invoice_data,
                   render_env, pdf_bytes, renderer_calls>>

\* line 219; an exception leaving generate_invoice_pdf leaves the route
invoice_route_generate ==
    /\ pc = "fetched"
    /\ invoice_data.kind # "None"
    /\ invoice_data.kind # "Order Not Found"
    /\ \E env \in RenderEnvs :
        /\ render_env' = env
        /\ pdf_bytes' = generate_invoice_pdf(invoice_data.view, env)
        /\ IF pdf_bytes'.exc # "none"
           THEN Finish("raised", <<>>)
           ELSE pc' = "generated" /\ UNCHANGED outcome
    /\ renderer_calls' = renderer_calls + 1
    /\ UNCHANGED <<number, words, wpc, upstream, order_id, invoice_data>>

\* lines 220-221
invoice_route_abort_pdf ==
    /\ pc = "generated"
    /\ pdf_bytes.kind = "None"
    /\ Finish("abort500", <<>>)
    /\ UNCHANGED <<number, words, wpc, upstream, order_id, invoice_data,
                   render_env, pdf_bytes, renderer_calls>>

\* lines 222-230; .replace on an invoice number that is no str raises
invoice_route_send ==
    /\ pc = "generated"
    /\ pdf_bytes.kind # "None"
    /\ IF invoice_data.view.invoice_number.type # "str"
       THEN Finish("raised", <<>>)
       ELSE Finish("send_file",
                   <<"invoice_">> \o replace_slash(invoice_data.view.invoice_number.text)
                   \o <<".pdf">>)
    /\ UNCHANGED <<number, words, wpc, upstream, order_id, invoice_data,
                   render_env, pdf_bytes, renderer_calls>>

Next ==
    \/ invoice_route_fetch
    \/ invoice_route_abort_fetch
    \/ invoice_route_abort_not_found
    \/ invoice_route_generate
    \/ invoice_route_abort_pdf
    \/ invoice_route_send

Spec == Init /\ [][Next]_vars

-----------------------------------------------------------------------------
(* the converter on its own: every input of WordsInputs is converted *)

LakhGroups     == {1, 2, 15, 99, 100, 200}
ThousandGroups == {0, 1, 12, 99}
HundredGroups  == {0, 1, 9}
Remainders     == {0, 1, 10, 19, 20, 50, 99}

LargeAmounts ==
    { l * 100000 + t * 1000 + h * 100 + r :
      l \in LakhGroups, t \in ThousandGroups, h \in HundredGroups, r \in Remainders }

WholeAmounts == (0..MaxSmall) \cup LargeAmounts

\* fractions 0, 0.005, 0.01, 0.125, 0.5, 0.994, 0.995, 0.99999
Fractions == {0, 500, 1000, 12500, 50000, 99400, 99500, 99999}

NonNumericKinds == {"badstr", "emptystr", "none", "object", "nanstr", "infstr"}

WordsInputs ==
    { [kind |-> "float", r |-> n, f |-> fr] : n \in WholeAmounts, fr \in Fractions }
    \cup { [kind |-> "numstr", r |-> n, f |-> fr] : n \in {0, 101, 1050}, fr \in {0, 50000} }
    \cup { [kind |-> k, r |-> 0, f |-> 0] : k \in NonNumericKinds }

InitWords ==
    /\ number \in WordsInputs
    /\ words = NoWords
    /\ wpc = "called"
    /\ RouteStart("off")

number_to_words_call ==
    /\ wpc = "called"
    /\ words' = number_to_words(number)
    /\ wpc' = "done"
    /\ UNCHANGED <<number, pc, upstream, order_id, invoice_data, render_env,
                   pdf_bytes, renderer_calls, outcome>>

NextWords == number_to_words_call

SpecWords == InitWords /\ [][NextWords]_vars

-----------------------------------------------------------------------------
(* properties *)

IsAmount    == number.kind \in {"float", "numstr"}
Converted   == wpc = "done" /\ IsAmount
WholeAmount == Converted /\ number.f = 0
Last(s)     == s[Len(s)]
Fetched     == pc \in {"fetched", "generated", "done"}
Derived     == Fetched /\ invoice_data.kind = "view"
TheOrder    == upstream.order

RECURSIVE SumNet(_)
SumNet(lines) ==
    IF lines = <<>> THEN 0 ELSE Head(lines).subtotal.v + SumNet(Tail(lines))

\* sum over the lines of net + cgst + sgst, each tax 2.5% of the net
RECURSIVE SumGross(_)
SumGross(lines) ==
    IF lines = <<>> THEN 0
    ELSE LET net == Head(lines).subtotal.v
         IN  net + 2 * (net \div 40) + SumGross(Tail(lines))

\* C1: fetch_order_data_from_api always returns a view, "Order Not Found" or
\* None, and no exception leaves it, whatever the provider does.
C1_FetchNeverRaises ==
    Fetched \/ pc = "done" =>
        /\ invoice_data.exc = "none"
        /\ invoice_data.kind \in {"view", "Order Not Found", "None"}

\* C2: a request ends in 404 exactly when the provider answered 404, in 500
\* when the fetch failed otherwise or generate_invoice_pdf returned None, and
\* in the document otherwise; the renderer runs only on a view and no document
\* is sent after a fetch or render failure.
C2_ThreeOutcomes ==
    LET provider404 == upstream.get = "response" /\ upstream.status = 404
        fetchFailed == invoice_data.kind # "view" /\ ~provider404
        pdfNone     == pdf_bytes.kind = "None"
    IN  /\ renderer_calls > 0 => invoice_data.kind = "view"
        /\ pc = "done" =>
            /\ outcome.kind \in {"abort404", "abort500", "send_file"}
            /\ outcome.kind = "abort404" <=> provider404
            /\ (fetchFailed \/ pdfNone) => outcome.kind = "abort500"
            /\ (~provider404 /\ ~fetchFailed /\ ~pdfNone) => outcome.kind = "send_file"
            /\ outcome.kind = "send_file" =>
                  invoice_data.kind = "view" /\ pdf_bytes.kind = "bytes"

\* C3: a failure of any stage of generate_invoice_pdf (template load, render,
\* PDF write) comes back as None and is not raised.
C3_RenderFailureIsNone ==
    (renderer_calls > 0 /\ render_env \in {"load", "render", "write"}) =>
        pdf_bytes = PdfNone

\* C4 as claimed: rounding is round(d, 2) for d = reported total minus the
\* recomputed sum over the lines of net + cgst + sgst, whatever total_tax is;
\* so it is 0.00 when that sum equals the reported total.
C4_RoundingFromRecomputedTax ==
    Derived =>
        LET lines == IF TheOrder.has_line_items THEN TheOrder.line_items ELSE <<>>
            d     == TheOrder.total.v - SumGross(lines)
        IN  /\ invoice_data.view.rounding = round2(d)
            /\ d = 0 => invoice_data.view.rounding = 0

\* C4 amended: rounding is round(d, 2) for d = reported total minus (sum of
\* the lines' net amounts plus the reported total_tax); it is 0.00 when the
\* net sum plus the reported total_tax equals the reported total, and the
\* recomputed cgst/sgst do not enter it.
C4_RoundingFromReportedTax ==
    Derived =>
        LET lines == IF TheOrder.has_line_items THEN TheOrder.line_items ELSE <<>>
            d     == TheOrder.total.v - (SumNet(lines) + TheOrder.total_tax.v)
        IN  /\ invoice_data.view.rounding = round2(d)
            /\ d = 0 => invoice_data.view.rounding = 0

C4_Witness ==
    /\ Derived
    /\ Len(TheOrder.line_items) = 2
    /\ TheOrder.total.v = SumNet(TheOrder.line_items) + TheOrder.total_tax.v
    /\ TheOrder.total.v # SumGross(TheOrder.line_items)
    /\ invoice_data.view.rounding = 0

\* C5: the view's total_amount is the reported order total and total_in_words
\* is the word form of that same total, independent of the line items.
C5_TotalIsReportedTotal ==
    Derived =>
        /\ invoice_data.view.total_amount = TheOrder.total.v
        /\ invoice_data.view.total_in_words
              = number_to_words(AsFloat(TheOrder.total.v)).value

C5_Witness ==
    /\ Derived
    /\ TheOrder.line_items # <<>>
    /\ TheOrder.total.v = 1050 * Unit
    /\ SumGross(TheOrder.line_items) = 2100 * Unit
    /\ invoice_data.view.total_amount = 1050 * Unit
    /\ invoice_data.view.total_in_words = <<"One", "thousand", "and", "fifty", "only">>

\* C6: for every amount a >= 0 number_to_words returns a string that ends in
\* "only" (the result is a function of the argument alone).
C6_EndsInOnly ==
    Converted => words.exc = "none" /\ Last(words.value) = "only"

C6_Witness ==
    /\ Converted
    /\ number.r = 1050 /\ number.f = 50000
    /\ words.value = <<"One", "thousand", "and", "fifty", "and", "fifty", "paise", "only">>

\* C7: for a whole amount n >= 1 the output contains "and" exactly when the
\* 0-99 remainder is non-zero and a lakh, thousand or hundred group is
\* non-zero, and then once, directly before the remainder's words.
C7_AndBeforeRemainder ==
    (WholeAmount /\ number.r >= 1) =>
        LET n    == number.r
            rem  == n % 100
            toks == words.value
            ands == {i \in 1..Len(toks) : toks[i] \in {"and", "And"}}
        IN  /\ (ands # {}) <=> (rem # 0 /\ n \div 100 > 0)
            /\ \A i \in ands :
                 /\ ands = {i}
                 /\ i > 1
                 /\ SubSeq(toks, i + 1, Len(toks)) = get_unit_word(rem) \o <<"only">>
            /\ n = 100    => toks = <<"One", "hundred", "only">>
            /\ n = 100000 => toks = <<"One", "lakh", "only">>
            /\ n = 101    => toks = <<"One", "hundred", "and", "one", "only">>
            /\ n = 1050   => toks = <<"One", "thousand", "and", "fifty", "only">>

C7_Witness ==
    /\ WholeAmount
    /\ number.r = 1500019
    /\ words.value = <<"Fifteen", "lakh", "and", "nineteen", "only">>

\* C8: every input that is not a number (non-numeric or empty string, None,
\* another object, "nan", "inf") gives "Invalid amount" and nothing is raised.
C8_NonNumericIsInvalidAmount ==
    (wpc = "done" /\ ~IsAmount) => words = Returned(<<"Invalid", "amount">>)

\* C9: subunits are never carried: the integer part worded is floor(a), the
\* subunit count is round((a - floor(a)) * 100), within 0..100, and when it
\* is 100 (fraction 0.995 or more) the output is
\* "<words of floor(a)> and one hundred paise only".
C9_NoCarry ==
    Converted =>
        LET p    == RoundDiv(number.f * 100, Unit)
            base == capitalize(strip(get_full_word(number.r)))
        IN  /\ words.exc = "none"
            /\ p \in 0..100
            /\ (p = 100) <=> (1000 * number.f >= 995 * Unit)
            /\ Len(words.value) > Len(base)
            /\ SubSeq(words.value, 1, Len(base)) = base
            /\ p = 0 => words.value = base \o <<"only">>
            /\ p > 0 => words.value
                          = base \o <<"and">> \o get_full_word(p) \o <<"paise", "only">>
            /\ p = 100 => words.value
                          = base \o <<"and", "one", "hundred", "paise", "only">>

C9_Witness ==
    /\ Converted
    /\ number.r = 99 /\ number.f = 99500
    /\ words.value = <<"Ninety", "nine", "and", "one", "hundred", "paise", "only">>

\* C10: every non-zero group is spelled by the words of its value followed by
\* its scale word, so two different whole amounts never get the same words,
\* amounts of one crore and more included.
C10_GroupsSpelledAndDistinct ==
    WholeAmount =>
        /\ number.r \div 100000 > 0 =>
              \E i \in 2..Len(words.value) :
                  words.value[i] = "lakh" /\ words.value[i - 1] # ""
        /\ \A m \in LargeAmounts :
              m # number.r =>
                  number_to_words([kind |-> "float", r |-> m, f |-> 0]) # words

=============================================================================
